---- MODULE Spec2Model ----
(***************************************************************************)
(* Struct HR Attendance API (FastAPI + SQLAlchemy over MySQL).             *)
(*                                                                         *)
(* The state is the three persisted tables (employees, attendance,         *)
(* system_today).  Every request handler is one action; what the handler   *)
(* does to the tables and what it answers is an operator XxxResult of the  *)
(* tables and the request, and the action stores the tables of that        *)
(* result.  A handler runs in its own Session (autocommit=False,           *)
(* autoflush=False), so what a query inside a handler sees is the rows as  *)
(* last flushed, never the handler's pending changes.                      *)
(*                                                                         *)
(* Dates are the integers 0..MaxDate (days since an arbitrary epoch).      *)
(* NULL is NoDate for a date column and NoStatus for a string column.      *)
(* An emp_code "EMPnn" is modelled by the sequence of its decimal digits.  *)
(* An employee's id is its position in the table (AUTO_INCREMENT, rows are *)
(* removed only by TRUNCATE).  The name column, which no handler reads, is *)
(* left out, and so is the id of an attendance row.                        *)
(***************************************************************************)
EXTENDS Integers, Sequences, FiniteSets, Bags, TLC

\* ------------------------------------------------------------------ bounds

MaxEmp == 2

MaxDate == 2

MaxBatch == 2

MaxAttDate == 1

\* set_system_today requests that run at the same time.
MaxRequests == 2

Dates == 0..MaxDate

\* attendance_date values requested in the attendance runs.
AttDates == 0..MaxAttDate

\* ------------------------------------------------------------------ values

NoDate == -1

NoStatus == "None"

\* models/employee.py: "Active, Inactive, Offboarded, Vacation"
Statuses == {"Active", "Inactive", "Vacation", "Offboarded"}

\* new_status / upcoming_status values requested in the lifecycle runs.
StatusInputs == {"Inactive", "Vacation"}

\* new_status and upcoming_status are plain `str` in the request schemas;
\* "Retired" is a string outside the set.
StatusStrings == Statuses \cup {"Retired"}

\* models/attendance.py: "Present", "PaidLeave", "UnpaidLeave"
AttendanceStatuses == {"Present", "PaidLeave", "UnpaidLeave"}

\* AttendanceItem.status is a plain `str`; "OnLeave" is a string outside the set.
AttendanceInputs == {"Present", "PaidLeave", "OnLeave"}

\* EmployeeCreate / EmployeeSalaryUpdate bodies.  The amounts of a body are
\* `float`; they are written here in thousandths of the currency unit, so
\* 1000000 is 1000.000.  The amounts of a stored employee are
\* Numeric(10, 2); they are written in hundredths, so 100000 is 1000.00.
Salary1000 ==
    [basic_pay_monthly |-> 1000000, transport_monthly |-> 200000,
     accommodation_monthly |-> 300000, other_monthly |-> 50000,
     paid_leave_daily |-> 40000, vacation_pay_daily |-> 30000]

Salary1100 ==
    [basic_pay_monthly |-> 1100000, transport_monthly |-> 200000,
     accommodation_monthly |-> 300000, other_monthly |-> 50000,
     paid_leave_daily |-> 45000, vacation_pay_daily |-> 30000]

\* 1000.004 / 200.004 / 300.004 / 50.004: amounts with a third decimal.
SalarySubCent ==
    [basic_pay_monthly |-> 1000004, transport_monthly |-> 200004,
     accommodation_monthly |-> 300004, other_monthly |-> 50004,
     paid_leave_daily |-> 40000, vacation_pay_daily |-> 30000]

SalaryPayloads == {Salary1000, Salary1100, SalarySubCent}

\* ------------------------------------------------------------------ state

\* The three tables, and the set_system_today requests that are under way:
\* where each is in its handler, the date it asks for and the manual_today of
\* the row its session has loaded.
VARIABLES employees, attendance, system_today, requests

vars == <<employees, attendance, system_today, requests>>

\* ------------------------------------------------------------------ emp_code

RECURSIVE Digits(_)
Digits(n) == IF n < 10 THEN <<n>> ELSE Append(Digits(n \div 10), n % 10)

\* f"EMP{next_num:02d}": at least two digits, zero padded.
FormatEmpCode(n) == IF n < 10 THEN <<0, n>> ELSE Digits(n)

RECURSIVE ParseInt(_)
ParseInt(ds) ==
    IF Len(ds) = 0 THEN 0
    ELSE 10 * ParseInt(SubSeq(ds, 1, Len(ds) - 1)) + ds[Len(ds)]

\* _generate_emp_code: the row with the greatest id is the last of the table.
GenerateEmpCode(emps) ==
    IF Len(emps) = 0 THEN FormatEmpCode(1)
    ELSE FormatEmpCode(ParseInt(emps[Len(emps)].emp_code) + 1)

EmpCodeInputs == { FormatEmpCode(n) : n \in 1..MaxEmp }

\* db.query(Employee).filter(Employee.emp_code == code).first(): 0 when no row.
FindByCode(emps, code) ==
    LET hits == { i \in DOMAIN emps : emps[i].emp_code = code }
    IN IF hits = {} THEN 0 ELSE CHOOSE i \in hits : \A j \in hits : i <= j

\* ------------------------------------------------------------------ salary

\* _calc_total_monthly: the sum of the four amounts of the body.
CalcTotalMonthly(p) ==
    p.basic_pay_monthly + p.transport_monthly + p.accommodation_monthly + p.other_monthly

\* What a Numeric(10, 2) column keeps of a non-negative amount: the amount
\* rounded to two decimals (no amount of the bodies is half-way).
ToNumeric(thousandths) == (thousandths + 5) \div 10

\* ------------------------------------------------------------------ refresh

\* What a Query inside a handler reads, given the rows as stored and the rows
\* with the handler's pending (unflushed) attribute changes: autoflush=False,
\* so the SELECT is evaluated on the stored rows.
QueryView(stored, pending) == stored

ScheduledOnOrBefore(emp, today) ==
    /\ emp.status_change_date # NoDate
    /\ emp.status_change_date <= today
    /\ emp.upcoming_status # NoStatus

\* Pass 1 filter: status_change_date == today, upcoming_status IS NOT NULL.
ScheduledFor(emp, today) ==
    emp.status_change_date = today /\ emp.upcoming_status # NoStatus

JoiningDateIsToday(joining_date, today) == joining_date = today

JoiningDateIgnored(joining_date, today) == TRUE

\* Pass 2 filter on the date: joining_date <= today.
JoiningDateReached(joining_date, today) == joining_date <= today

RefreshEmployeeStatuses(today, emps) ==
    LET employees_to_update == { i \in DOMAIN emps : ScheduledFor(emps[i], today) }
        pass1 == [ i \in DOMAIN emps |->
                     IF i \in employees_to_update
                     THEN [emps[i] EXCEPT !.current_status = emps[i].upcoming_status,
                                          !.upcoming_status = NoStatus,
                                          !.status_change_date = NoDate]
                     ELSE emps[i] ]
        seen == QueryView(emps, pass1)
        inactive_to_activate ==
            { i \in DOMAIN emps : /\ seen[i].current_status = "Inactive"
                                  /\ JoiningDateReached(seen[i].joining_date, today) }
    IN [ i \in DOMAIN emps |->
           IF i \in inactive_to_activate
           THEN [pass1[i] EXCEPT !.current_status = "Active"]
           ELSE pass1[i] ]

\* No request: the worker thread is free.
Idle == [pc |-> "idle", new_today |-> NoDate, seen |-> NoDate]

\* ------------------------------------------------------------------ init

\* Base.metadata.create_all: three empty tables.  attendance is the bag of
\* its rows; system_today is the sequence of the manual_today of its rows
\* (no row, or the one row with id = 1).  No request is under way.
Init ==
    /\ employees = << >>
    /\ attendance = EmptyBag
    /\ system_today = << >>
    /\ requests = [ r \in 1..MaxRequests |-> Idle ]

\* ------------------------------------------------------------------ employees

ListEmployeesAfterClock(emps, today) ==
    IF Len(system_today) > 0 /\ system_today[1] # NoDate /\ today < system_today[1]
    THEN [status |-> 400, employees |-> emps]
    ELSE [status |-> 200, employees |-> RefreshEmployeeStatuses(today, emps)]

\* GET /employees/?today=
ListEmployeesResult(emps, today) ==
    [status |-> 200, employees |-> RefreshEmployeeStatuses(today, emps)]

ListEmployees(today) ==
    /\ employees' = ListEmployeesResult(employees, today).employees
    /\ UNCHANGED <<attendance, system_today, requests>>

\* GET /employees/?today= when the SELECT that follows the refresh raises (the
\* connection is lost): the refresh has committed, the request answers 500.
ListEmployeesFailedResult(emps, today) ==
    [status |-> 500, employees |-> RefreshEmployeeStatuses(today, emps)]

ListEmployeesFailed(today) ==
    /\ employees' = ListEmployeesFailedResult(employees, today).employees
    /\ UNCHANGED <<attendance, system_today, requests>>

NewEmployeeInactiveOnJoiningDay(emps, joining_date, salary, today) ==
    [ emp_code              |-> GenerateEmpCode(emps),
      joining_date          |-> joining_date,
      current_status        |-> IF joining_date >= today THEN "Inactive" ELSE "Active",
      status_change_date    |-> NoDate,
      upcoming_status       |-> NoStatus,
      basic_pay_monthly     |-> ToNumeric(salary.basic_pay_monthly),
      transport_monthly     |-> ToNumeric(salary.transport_monthly),
      accommodation_monthly |-> ToNumeric(salary.accommodation_monthly),
      other_monthly         |-> ToNumeric(salary.other_monthly),
      paid_leave_daily      |-> ToNumeric(salary.paid_leave_daily),
      vacation_pay_daily    |-> ToNumeric(salary.vacation_pay_daily),
      total_salary_monthly  |-> ToNumeric(CalcTotalMonthly(salary)) ]

\* POST /employees/?today=
NewEmployee(emps, joining_date, salary, today) ==
    [ emp_code              |-> GenerateEmpCode(emps),
      joining_date          |-> joining_date,
      current_status        |-> IF joining_date > today THEN "Inactive" ELSE "Active",
      status_change_date    |-> NoDate,
      upcoming_status       |-> NoStatus,
      basic_pay_monthly     |-> ToNumeric(salary.basic_pay_monthly),
      transport_monthly     |-> ToNumeric(salary.transport_monthly),
      accommodation_monthly |-> ToNumeric(salary.accommodation_monthly),
      other_monthly         |-> ToNumeric(salary.other_monthly),
      paid_leave_daily      |-> ToNumeric(salary.paid_leave_daily),
      vacation_pay_daily    |-> ToNumeric(salary.vacation_pay_daily),
      total_salary_monthly  |-> ToNumeric(CalcTotalMonthly(salary)) ]

CreateEmployeeResult(emps, joining_date, salary, today) ==
    [status |-> 200,
     employees |-> Append(emps, NewEmployee(emps, joining_date, salary, today))]

\* The table is capped at MaxEmp rows.
CreateEmployee(joining_date, salary, today) ==
    /\ Len(employees) < MaxEmp
    /\ employees' = CreateEmployeeResult(employees, joining_date, salary, today).employees
    /\ UNCHANGED <<attendance, system_today, requests>>

\* PATCH /employees/{emp_code}/status
UpdateEmployeeStatusResult(emps, emp_code, upcoming_status, status_change_date) ==
    LET i == FindByCode(emps, emp_code) IN
    IF i = 0 THEN [status |-> 404, employees |-> emps]
    ELSE LET e1 == IF upcoming_status # NoStatus
                   THEN [emps[i] EXCEPT !.upcoming_status = upcoming_status]
                   ELSE emps[i]
             e2 == IF status_change_date # NoDate
                   THEN [e1 EXCEPT !.status_change_date = status_change_date]
                   ELSE e1
         IN [status |-> 200, employees |-> [emps EXCEPT ![i] = e2]]

UpdateEmployeeStatus(emp_code, upcoming_status, status_change_date) ==
    /\ employees' = UpdateEmployeeStatusResult(employees, emp_code, upcoming_status,
                                               status_change_date).employees
    /\ UNCHANGED <<attendance, system_today, requests>>

\* POST /employees/status-changes
ChangeItems(statuses) ==
    [emp_code : EmpCodeInputs, new_status : statuses, effective_date : Dates]

ChangeBatches(statuses) == UNION { [1..n -> ChangeItems(statuses)] : n \in 0..MaxBatch }

AppliesWhateverTheDate(effective_date, today) == TRUE

AppliesOnlyToday(effective_date, today) == effective_date = today

AppliesNever(effective_date, today) == FALSE

\* "If the effective date is today or earlier, apply immediately".
AppliesImmediately(effective_date, today) == effective_date <= today

\* One iteration of the loop over payload.changes.
ApplyChange(emps, change, today) ==
    LET i == FindByCode(emps, change.emp_code) IN
    IF i = 0 THEN emps
    ELSE IF AppliesImmediately(change.effective_date, today)
         THEN [emps EXCEPT ![i].current_status = change.new_status,
                           ![i].upcoming_status = NoStatus,
                           ![i].status_change_date = NoDate]
         ELSE [emps EXCEPT ![i].upcoming_status = change.new_status,
                           ![i].status_change_date = change.effective_date]

RECURSIVE ApplyChanges(_, _, _)
ApplyChanges(emps, changes, today) ==
    IF Len(changes) = 0 THEN emps
    ELSE ApplyChanges(ApplyChange(emps, Head(changes), today), Tail(changes), today)

\* The loop, db.commit(), then refresh_employee_statuses(today, db).
ApplyStatusChangesResult(emps, today, changes) ==
    [status |-> 200,
     employees |-> RefreshEmployeeStatuses(today, ApplyChanges(emps, changes, today))]

ApplyStatusChanges(today, changes) ==
    /\ employees' = ApplyStatusChangesResult(employees, today, changes).employees
    /\ UNCHANGED <<attendance, system_today, requests>>

\* PATCH /employees/{emp_code}
UpdateEmployeeSalaryResult(emps, emp_code, salary) ==
    LET i == FindByCode(emps, emp_code) IN
    IF i = 0 THEN [status |-> 404, employees |-> emps]
    ELSE [status |-> 200,
          employees |->
            [emps EXCEPT ![i].basic_pay_monthly = ToNumeric(salary.basic_pay_monthly),
                         ![i].transport_monthly = ToNumeric(salary.transport_monthly),
                         ![i].accommodation_monthly =
                             ToNumeric(salary.accommodation_monthly),
                         ![i].other_monthly = ToNumeric(salary.other_monthly),
                         ![i].paid_leave_daily = ToNumeric(salary.paid_leave_daily),
                         ![i].vacation_pay_daily = ToNumeric(salary.vacation_pay_daily),
                         ![i].total_salary_monthly =
                             ToNumeric(salary.basic_pay_monthly + salary.transport_monthly
                                       + salary.accommodation_monthly
                                       + salary.other_monthly)]]

UpdateEmployeeSalary(emp_code, salary) ==
    /\ employees' = UpdateEmployeeSalaryResult(employees, emp_code, salary).employees
    /\ UNCHANGED <<attendance, system_today, requests>>

\* ------------------------------------------------------------------ attendance

AttKey(r) == <<r.employee_id, r.attendance_date>>

RowsWithKey(rows, key) == { r \in BagToSet(rows) : AttKey(r) = key }

NoUniqueConstraint(rows) == FALSE

\* UniqueConstraint("employee_id", "attendance_date"): some key is held twice.
UniqueViolation(rows) ==
    \E r \in BagToSet(rows) :
        \/ CopiesIn(r, rows) > 1
        \/ \E q \in BagToSet(rows) : q # r /\ AttKey(q) = AttKey(r)

\* ForeignKey("employees.id"): the id of a row of employees is its position.
ForeignKeyViolation(rows, emps) ==
    \E r \in BagToSet(rows) : r.employee_id \notin DOMAIN emps

\* One iteration of the loop over payload.items: `stored` is the table,
\* `pending` the table with the changes the session has not flushed.
SaveItem(stored, pending, item) ==
    LET key == <<item.employee_id, item.attendance_date>>
        found == RowsWithKey(QueryView(stored, pending), key)
    IN IF found # {}
       THEN LET row == CHOOSE r \in RowsWithKey(pending, key) : TRUE
            IN (pending (-) SetToBag({row}))
                 (+) SetToBag({[row EXCEPT !.status = item.status]})
       ELSE pending (+) SetToBag({[employee_id |-> item.employee_id,
                                   attendance_date |-> item.attendance_date,
                                   status |-> item.status]})

RECURSIVE SaveItems(_, _, _)
SaveItems(stored, pending, items) ==
    IF Len(items) = 0 THEN pending
    ELSE SaveItems(stored, SaveItem(stored, pending, Head(items)), Tail(items))

\* POST /attendance/ : db.commit() flushes every pending row in one
\* transaction; an IntegrityError leaves the table as it was (status 500).
SaveAttendanceResult(emps, rows, items) ==
    IF Len(items) = 0
    THEN [status |-> 400, employees |-> emps, attendance |-> rows, updated |-> 0]
    ELSE LET pending == SaveItems(rows, rows, items) IN
         IF UniqueViolation(pending) \/ ForeignKeyViolation(pending, emps)
         THEN [status |-> 500, employees |-> emps, attendance |-> rows, updated |-> 0]
         ELSE [status |-> 200, employees |-> emps, attendance |-> pending,
               updated |-> Len(items)]

AttendanceItems ==
    [employee_id : 1..MaxEmp, attendance_date : AttDates, status : AttendanceInputs]

AttendanceBatches == UNION { [1..n -> AttendanceItems] : n \in 0..MaxBatch }

SaveAttendance(items) ==
    LET r == SaveAttendanceResult(employees, attendance, items) IN
    /\ employees' = r.employees
    /\ attendance' = r.attendance
    /\ UNCHANGED <<system_today, requests>>

\* Python's str comparison on the digits of two codes.
RECURSIVE LexLess(_, _)
LexLess(a, b) ==
    IF Len(b) = 0 THEN FALSE
    ELSE IF Len(a) = 0 THEN TRUE
    ELSE IF Head(a) # Head(b) THEN Head(a) < Head(b)
    ELSE LexLess(Tail(a), Tail(b))

\* .order_by(Employee.emp_code.asc()) over the rows `ids`.
RECURSIVE OrderByEmpCode(_, _)
OrderByEmpCode(emps, ids) ==
    IF ids = {} THEN << >>
    ELSE LET m == CHOOSE i \in ids :
                     \A j \in ids : ~LexLess(emps[j].emp_code, emps[i].emp_code)
         IN <<m>> \o OrderByEmpCode(emps, ids \ {m})

\* Steps 2 and 3 of get_attendance_for_day: one row per Active employee, with
\* the stored status of (employee, attendance_date) or the default "Present".
AttendanceRowsFor(emps, rows, attendance_date) ==
    LET active_emps == OrderByEmpCode(emps,
                         { i \in DOMAIN emps : emps[i].current_status = "Active" })
        StatusOf(id) ==
            LET existing == RowsWithKey(rows, <<id, attendance_date>>)
            IN IF existing # {} THEN (CHOOSE r \in existing : TRUE).status
               ELSE "Present"
    IN [ k \in 1..Len(active_emps) |->
           [employee_id |-> active_emps[k],
            emp_code |-> emps[active_emps[k]].emp_code,
            attendance_date |-> attendance_date,
            status |-> StatusOf(active_emps[k])] ]

\* The rows of a result that are not in the table yet.
DefaultRows(rows, result) ==
    { [employee_id |-> result[k].employee_id,
       attendance_date |-> result[k].attendance_date,
       status |-> result[k].status] : k \in DOMAIN result }
      \ BagToSet(rows)

GetAttendancePersistingDefaults(emps, rows, today, attendance_date) ==
    LET refreshed == RefreshEmployeeStatuses(today, emps)
        result == AttendanceRowsFor(refreshed, rows, attendance_date)
    IN [status |-> 200, employees |-> refreshed,
        attendance |-> rows (+) SetToBag(DefaultRows(rows, result)),
        result |-> result]

GetAttendanceWithoutRefresh(emps, rows, today, attendance_date) ==
    [status |-> 200, employees |-> RefreshEmployeeStatuses(today, emps),
     attendance |-> rows,
     result |-> AttendanceRowsFor(emps, rows, attendance_date)]

\* GET /attendance/?today=&attendance_date=
GetAttendanceForDayResult(emps, rows, today, attendance_date) ==
    LET refreshed == RefreshEmployeeStatuses(today, emps)
    IN [status |-> 200, employees |-> refreshed, attendance |-> rows,
        result |-> AttendanceRowsFor(refreshed, rows, attendance_date)]

GetAttendanceForDay(today, attendance_date) ==
    LET r == GetAttendanceForDayResult(employees, attendance, today, attendance_date) IN
    /\ employees' = r.employees
    /\ attendance' = r.attendance
    /\ UNCHANGED <<system_today, requests>>

\* GET /attendance/ when a SELECT that follows the refresh raises: the refresh
\* has committed, the request answers 500.
GetAttendanceForDayFailedResult(emps, rows, today, attendance_date) ==
    [status |-> 500, employees |-> RefreshEmployeeStatuses(today, emps),
     attendance |-> rows]

GetAttendanceForDayFailed(today, attendance_date) ==
    LET r == GetAttendanceForDayFailedResult(employees, attendance, today,
                                             attendance_date) IN
    /\ employees' = r.employees
    /\ attendance' = r.attendance
    /\ UNCHANGED <<system_today, requests>>

\* POST /admin/reset : TRUNCATE attendance and employees (the AUTO_INCREMENT
\* counters start again at 1).
ResetDatabaseResult(emps, rows) ==
    [status |-> 200, employees |-> << >>, attendance |-> EmptyBag]

ResetDatabase ==
    LET r == ResetDatabaseResult(employees, attendance) IN
    /\ employees' = r.employees
    /\ attendance' = r.attendance
    /\ UNCHANGED <<system_today, requests>>

\* ------------------------------------------------------------------ system today

\* _get_singleton_row: the row with id = 1, inserted and committed when missing.
GetSingletonRow(tbl) == IF Len(tbl) = 0 THEN <<NoDate>> ELSE tbl

\* GET /system/today
GetSystemTodayResult(tbl) ==
    LET row == GetSingletonRow(tbl) IN
    [status |-> 200, system_today |-> row, today |-> row[1]]

GetSystemToday ==
    /\ system_today' = GetSystemTodayResult(system_today).system_today
    /\ UNCHANGED <<employees, attendance, requests>>

ManualToday(tbl) == IF Len(tbl) = 0 THEN NoDate ELSE tbl[1]

RefusesTodayAgain(manual_today, new_today) ==
    manual_today # NoDate /\ new_today <= manual_today

\* The guard of set_system_today: the new date is refused.
GoingBackwards(manual_today, new_today) ==
    manual_today # NoDate /\ new_today < manual_today

\* POST /system/today
SetSystemTodayResult(tbl, new_today) ==
    LET row == GetSingletonRow(tbl) IN
    IF GoingBackwards(row[1], new_today)
    THEN [status |-> 400, system_today |-> row, today |-> row[1]]
    ELSE [status |-> 200, system_today |-> [row EXCEPT ![1] = new_today],
          today |-> new_today]

SetSystemToday(new_today) ==
    /\ system_today' = SetSystemTodayResult(system_today, new_today).system_today
    /\ UNCHANGED <<employees, attendance, requests>>

\* ------------------------------------------------ system today, requests in parallel
\* The handlers are plain `def`s, which FastAPI runs on worker threads, each
\* with its own Session and transaction.  A set_system_today request is
\* followed statement by statement; only a commit is seen by the others.

\* The request arrives: payload.today.
BeginSetSystemToday(r, new_today) ==
    /\ requests[r].pc = "idle"
    /\ requests' = [requests EXCEPT ![r] = [pc |-> "query", new_today |-> new_today,
                                            seen |-> NoDate]]
    /\ UNCHANGED <<employees, attendance, system_today>>

\* _get_singleton_row, the SELECT of the row with id = 1.
QuerySingletonRow(r) ==
    /\ requests[r].pc = "query"
    /\ requests' = [requests EXCEPT ![r] =
                       IF Len(system_today) = 0
                       THEN [@ EXCEPT !.pc = "insert"]
                       ELSE [@ EXCEPT !.pc = "guard", !.seen = system_today[1]]]
    /\ UNCHANGED <<employees, attendance, system_today>>

\* id is the primary key: a second row with id = 1 is refused.
PrimaryKeyViolation(tbl) == Len(tbl) > 0

\* _get_singleton_row, no row was found: INSERT the row with id = 1 and
\* commit.  When another request has inserted it meanwhile the commit raises
\* and the request ends with 500.
InsertSingletonRow(r) ==
    /\ requests[r].pc = "insert"
    /\ IF PrimaryKeyViolation(system_today)
       THEN /\ requests' = [requests EXCEPT ![r] = Idle]
            /\ UNCHANGED system_today
       ELSE /\ system_today' = Append(system_today, NoDate)
            /\ requests' = [requests EXCEPT ![r] = [@ EXCEPT !.pc = "guard",
                                                             !.seen = NoDate]]
    /\ UNCHANGED <<employees, attendance>>

\* The guard on the row as loaded, then row.manual_today = new_today and
\* commit: an UPDATE of the row with id = 1 when the attribute has changed.
GuardAndCommit(r) ==
    /\ requests[r].pc = "guard"
    /\ system_today' =
          IF GoingBackwards(requests[r].seen, requests[r].new_today)
             \/ requests[r].new_today = requests[r].seen
          THEN system_today
          ELSE [system_today EXCEPT ![1] = requests[r].new_today]
    /\ requests' = [requests EXCEPT ![r] = Idle]
    /\ UNCHANGED <<employees, attendance>>

\* ------------------------------------------------------------------ lifecycle

LifecycleBatches == ChangeBatches(StatusInputs)

\* Employee lifecycle: every employee operation, two status values to schedule,
\* one salary body.
Next ==
    \/ \E today \in Dates : ListEmployees(today)
    \/ \E today \in Dates : ListEmployeesFailed(today)
    \/ \E j \in Dates, today \in Dates : CreateEmployee(j, Salary1000, today)
    \/ \E c \in EmpCodeInputs, u \in StatusInputs \cup {NoStatus}, d \in Dates \cup {NoDate} :
          UpdateEmployeeStatus(c, u, d)
    \/ \E today \in Dates, changes \in LifecycleBatches :
          ApplyStatusChanges(today, changes)
    \/ \E c \in EmpCodeInputs : UpdateEmployeeSalary(c, Salary1000)

Spec == Init /\ [][Next]_vars

\* Attendance: employees are created and refreshed, attendance is saved and read.
NextAttendance ==
    \/ \E j \in Dates, today \in Dates : CreateEmployee(j, Salary1000, today)
    \/ \E today \in Dates, d \in AttDates : GetAttendanceForDay(today, d)
    \/ \E today \in Dates, d \in AttDates : GetAttendanceForDayFailed(today, d)
    \/ \E items \in AttendanceBatches : SaveAttendance(items)
    \/ ResetDatabase

SpecAttendance == Init /\ [][NextAttendance]_vars

\* The requests of the clock runs on the employees and their attendance: a
\* Vacation for the first employee, attendance of the first employee on day 0.
ClockBatches ==
    { << [emp_code |-> FormatEmpCode(1), new_status |-> "Vacation",
          effective_date |-> d] >> : d \in Dates }

ClockAttendanceBatches ==
    { << [employee_id |-> 1, attendance_date |-> 0, status |-> s] >> :
        s \in {"Present", "PaidLeave"} }

\* The logical clock, beside the employee and attendance operations.
NextClock ==
    \/ GetSystemToday
    \/ \E d \in Dates : SetSystemToday(d)
    \/ \E j \in Dates, today \in Dates : CreateEmployee(j, Salary1000, today)
    \/ \E today \in Dates : ListEmployees(today)
    \/ \E today \in Dates, changes \in ClockBatches : ApplyStatusChanges(today, changes)
    \/ \E today \in Dates : GetAttendanceForDay(today, 0)
    \/ \E items \in ClockAttendanceBatches : SaveAttendance(items)

SpecClock == Init /\ [][NextClock]_vars

\* The logical clock under set_system_today requests that run in parallel.
NextParallelClock ==
    \/ \E r \in 1..MaxRequests, d \in Dates : BeginSetSystemToday(r, d)
    \/ \E r \in 1..MaxRequests : QuerySingletonRow(r)
    \/ \E r \in 1..MaxRequests : InsertSingletonRow(r)
    \/ \E r \in 1..MaxRequests : GuardAndCommit(r)

SpecParallelClock == Init /\ [][NextParallelClock]_vars

\* Salaries: employees are created, listed and given a new salary, with every
\* salary body.
NextSalary ==
    \/ \E j \in Dates, today \in Dates, p \in SalaryPayloads : CreateEmployee(j, p, today)
    \/ \E c \in EmpCodeInputs, p \in SalaryPayloads : UpdateEmployeeSalary(c, p)
    \/ \E today \in Dates : ListEmployees(today)

SpecSalary == Init /\ [][NextSalary]_vars

\* ------------------------------------------------------------------ claims

Max(S) == CHOOSE x \in S : \A y \in S : y <= x

StatusFields(e) == <<e.current_status, e.upcoming_status, e.status_change_date>>

HasPending(e) == e.upcoming_status # NoStatus /\ e.status_change_date # NoDate

\* C1: refreshing twice with the same today leaves every employee's
\* current_status, upcoming_status and status_change_date as the first
\* refresh left them.
C1_RefreshIdempotent ==
    \A today \in Dates :
        LET once == RefreshEmployeeStatuses(today, employees)
            twice == RefreshEmployeeStatuses(today, once)
        IN \A i \in DOMAIN employees : StatusFields(twice[i]) = StatusFields(once[i])

\* One step of the clock, for C2: in the state it leaves, a set_system_today
\* with a date earlier than the stored manual_today answers 400 and leaves it
\* unchanged and any other set answers 200 and stores the date; and the step
\* does not lower a stored manual_today.
C2_ClockStep ==
    /\ \A d \in Dates :
          LET cur == ManualToday(system_today)
              r == SetSystemTodayResult(system_today, d)
          IN IF cur # NoDate /\ d < cur
             THEN r.status = 400 /\ ManualToday(r.system_today) = cur
             ELSE r.status = 200 /\ ManualToday(r.system_today) = d
    /\ ManualToday(system_today) # NoDate
          => ManualToday(system_today') >= ManualToday(system_today)

\* C2: a set_system_today with a date earlier than the stored manual_today
\* is refused and changes nothing, any other set succeeds and stores the
\* date, and the stored manual_today never decreases once set.
C2_MonotonicClock == [][C2_ClockStep]_vars

\* C2 witness: a date is stored, an earlier one is refused and a later one taken.
C2_Witness ==
    /\ ManualToday(system_today) = 1
    /\ SetSystemTodayResult(system_today, 0).status = 400
    /\ SetSystemTodayResult(system_today, 2).status = 200

\* C3: a pending transition (U, D) is applied by refresh(D), which ends with
\* current_status = U and both pending fields absent, and is left as it is by
\* refresh(t) for every other t.  (Stated for U other than Inactive, which
\* pass 2 may turn to Active again.)
C3_ExactDateTransition ==
    \A i \in DOMAIN employees, t \in Dates :
        LET e == employees[i]
            after == RefreshEmployeeStatuses(t, employees)[i]
        IN (HasPending(e) /\ e.upcoming_status # "Inactive") =>
              IF t = e.status_change_date
              THEN /\ after.current_status = e.upcoming_status
                   /\ after.upcoming_status = NoStatus
                   /\ after.status_change_date = NoDate
              ELSE /\ after.upcoming_status = e.upcoming_status
                   /\ after.status_change_date = e.status_change_date

\* C4: an Inactive employee with no transition taking effect on `today` is
\* Active after refresh(today) when joining_date <= today, however long ago
\* the joining date was, and still Inactive when joining_date > today.
C4_AutoActivation ==
    \A i \in DOMAIN employees, today \in Dates :
        LET e == employees[i]
            after == RefreshEmployeeStatuses(today, employees)[i]
        IN (e.current_status = "Inactive"
            /\ ~(e.status_change_date = today /\ e.upcoming_status # NoStatus))
           => after.current_status =
                 IF today >= e.joining_date THEN "Active" ELSE "Inactive"

\* C4 witness: an Inactive employee whose joining date is day 0, activated by
\* a refresh two days later, and one whose joining date is still ahead.
C4_Witness ==
    /\ \E i \in DOMAIN employees :
          /\ employees[i].current_status = "Inactive"
          /\ employees[i].joining_date = 0
          /\ employees[i].upcoming_status = NoStatus
          /\ RefreshEmployeeStatuses(2, employees)[i].current_status = "Active"
    /\ \E i \in DOMAIN employees :
          /\ employees[i].current_status = "Inactive"
          /\ employees[i].joining_date = 2
          /\ RefreshEmployeeStatuses(1, employees)[i].current_status = "Inactive"

\* C5: every employee has status_change_date present exactly when
\* upcoming_status is present.
C5_PendingPair ==
    \A i \in DOMAIN employees :
        (employees[i].status_change_date # NoDate)
            <=> (employees[i].upcoming_status # NoStatus)

\* The changes of a batch that name employee i, by position.
ChangesOf(emps, changes, i) ==
    { k \in DOMAIN changes : FindByCode(emps, changes[k].emp_code) = i }

\* A batch with its k-th change left out.
WithoutChange(changes, k) ==
    SubSeq(changes, 1, k - 1) \o SubSeq(changes, k + 1, Len(changes))

\* C6 (as claimed): a change of an existing employee whose effective_date is
\* earlier than today makes apply_status_changes answer an error, and the
\* employee's three status fields are what they are without that change.
C6_EarlyDateRejected ==
    \A today \in Dates, changes \in LifecycleBatches :
        \A k \in DOMAIN changes :
            LET i == FindByCode(employees, changes[k].emp_code)
                r == ApplyStatusChangesResult(employees, today, changes)
                without == ApplyStatusChangesResult(employees, today,
                                                    WithoutChange(changes, k))
            IN (i # 0 /\ changes[k].effective_date < today) =>
                  /\ r.status # 200
                  /\ StatusFields(r.employees[i]) = StatusFields(without.employees[i])

\* C6 (amended): a change whose effective_date is earlier than today is not
\* refused.  apply_status_changes answers 200, and an employee whose last
\* change in the batch is such a change ends with no pending transition and
\* with current_status = new_status, or Active when new_status is Inactive
\* and the joining date has been reached (the refresh that ends the call).
C6_EarlyDateAppliedAtOnce ==
    \A today \in Dates, changes \in LifecycleBatches :
        LET r == ApplyStatusChangesResult(employees, today, changes) IN
        /\ r.status = 200
        /\ \A i \in DOMAIN employees :
              LET ks == ChangesOf(employees, changes, i) IN
              (ks # {} /\ changes[Max(ks)].effective_date < today) =>
                 LET c == changes[Max(ks)]
                     e == r.employees[i]
                 IN /\ e.upcoming_status = NoStatus
                    /\ e.status_change_date = NoDate
                    /\ e.current_status =
                          IF c.new_status = "Inactive"
                             /\ employees[i].joining_date <= today
                          THEN "Active" ELSE c.new_status

\* C6 witness: an Active employee with a transition pending, on whom a
\* Vacation dated yesterday takes effect at once.
C6_Witness ==
    \E i \in DOMAIN employees :
        LET c == [emp_code |-> employees[i].emp_code, new_status |-> "Vacation",
                  effective_date |-> 1]
            r == ApplyStatusChangesResult(employees, 2, <<c>>)
        IN /\ employees[i].current_status = "Active"
           /\ HasPending(employees[i])
           /\ r.status = 200
           /\ StatusFields(r.employees[i]) = <<"Vacation", NoStatus, NoDate>>

\* C7: a save_attendance batch with an item whose status is not Present,
\* PaidLeave or UnpaidLeave is refused and leaves the attendance table as it was.
C7_InvalidStatusRejected ==
    \A items \in AttendanceBatches :
        LET r == SaveAttendanceResult(employees, attendance, items) IN
        (\E k \in DOMAIN items : items[k].status \notin AttendanceStatuses) =>
            /\ r.status # 200
            /\ r.attendance = attendance

CurrentStatuses(emps) == [ i \in DOMAIN emps |-> emps[i].current_status ]

\* What refresh(today) alone makes of the current_status of employee i.
RefreshedStatus(emps, today, i) == RefreshEmployeeStatuses(today, emps)[i].current_status

\* C8 (as claimed): after update_employee_status, update_employee_salary and
\* save_attendance every current_status is what it was, and after
\* apply_status_changes(today, ..) it is what it was or what refresh(today)
\* makes of it.
C8_OnlyRefreshSetsStatus ==
    /\ \A c \in EmpCodeInputs, u \in StatusInputs \cup {NoStatus}, d \in Dates \cup {NoDate} :
          CurrentStatuses(UpdateEmployeeStatusResult(employees, c, u, d).employees)
              = CurrentStatuses(employees)
    /\ \A c \in EmpCodeInputs, p \in SalaryPayloads :
          CurrentStatuses(UpdateEmployeeSalaryResult(employees, c, p).employees)
              = CurrentStatuses(employees)
    /\ \A items \in AttendanceBatches :
          CurrentStatuses(SaveAttendanceResult(employees, attendance, items).employees)
              = CurrentStatuses(employees)
    /\ \A today \in Dates, changes \in LifecycleBatches :
          LET r == ApplyStatusChangesResult(employees, today, changes) IN
          \A i \in DOMAIN employees :
              r.employees[i].current_status
                  \in { employees[i].current_status, RefreshedStatus(employees, today, i) }

\* C8 (amended): update_employee_status, update_employee_salary and
\* save_attendance leave every current_status as it was.  After
\* apply_status_changes(today, ..) a current_status is what it was, or the
\* new_status of a change of that employee with effective_date <= today, or
\* a value of the refresh: the employee's pending status when it was due
\* today, or Active when the joining date has been reached.
C8_StatusSetByRefreshOrImmediateChange ==
    /\ \A c \in EmpCodeInputs, u \in StatusInputs \cup {NoStatus}, d \in Dates \cup {NoDate} :
          CurrentStatuses(UpdateEmployeeStatusResult(employees, c, u, d).employees)
              = CurrentStatuses(employees)
    /\ \A c \in EmpCodeInputs, p \in SalaryPayloads :
          CurrentStatuses(UpdateEmployeeSalaryResult(employees, c, p).employees)
              = CurrentStatuses(employees)
    /\ \A items \in AttendanceBatches :
          CurrentStatuses(SaveAttendanceResult(employees, attendance, items).employees)
              = CurrentStatuses(employees)
    /\ \A today \in Dates, changes \in LifecycleBatches :
          LET r == ApplyStatusChangesResult(employees, today, changes) IN
          \A i \in DOMAIN employees :
              LET e == employees[i] IN
              r.employees[i].current_status
                  \in {e.current_status}
                      \cup { changes[k].new_status :
                               k \in { n \in ChangesOf(employees, changes, i) :
                                         changes[n].effective_date <= today } }
                      \cup (IF e.status_change_date = today /\ e.upcoming_status # NoStatus
                            THEN {e.upcoming_status} ELSE {})
                      \cup (IF e.joining_date <= today THEN {"Active"} ELSE {})

\* C8 witness: an Active employee that a change dated today turns to Vacation,
\* while a change dated tomorrow leaves it Active.
C8_Witness ==
    \E i \in DOMAIN employees :
        LET now == [emp_code |-> employees[i].emp_code, new_status |-> "Vacation",
                    effective_date |-> 1]
            later == [now EXCEPT !.effective_date = 2]
        IN /\ employees[i].current_status = "Active"
           /\ ApplyStatusChangesResult(employees, 1, <<now>>).employees[i].current_status
                 = "Vacation"
           /\ ApplyStatusChangesResult(employees, 1, <<later>>).employees[i].current_status
                 = "Active"

\* C9: the attendance table holds at most one row for an employee and a date.
C9_AttendanceKeyUnique ==
    \A r \in BagToSet(attendance) :
        /\ CopiesIn(r, attendance) = 1
        /\ \A q \in BagToSet(attendance) : AttKey(q) = AttKey(r) => q = r

\* C9 witness: two rows are stored, and a batch that names a new key twice is
\* refused as a whole.
C9_Witness ==
    /\ BagCardinality(attendance) >= 2
    /\ \E items \in AttendanceBatches :
          /\ Len(items) = 2
          /\ AttKey(items[1]) = AttKey(items[2])
          /\ items[1].employee_id \in DOMAIN employees
          /\ RowsWithKey(attendance, AttKey(items[1])) = {}
          /\ SaveAttendanceResult(employees, attendance, items).status = 500

\* C10: get_attendance_for_day leaves the attendance table as it was; an
\* employee who is Active after its refresh and has no row for the date is
\* reported Present, and has no row for the date afterwards either.
C10_DefaultNotPersisted ==
    \A today \in Dates, d \in AttDates :
        LET r == GetAttendanceForDayResult(employees, attendance, today, d) IN
        /\ r.attendance = attendance
        /\ \A i \in DOMAIN r.employees :
              (r.employees[i].current_status = "Active"
               /\ RowsWithKey(attendance, <<i, d>>) = {}) =>
                  /\ \E k \in DOMAIN r.result :
                        r.result[k].employee_id = i /\ r.result[k].status = "Present"
                  /\ RowsWithKey(r.attendance, <<i, d>>) = {}

\* C10 witness: an Active employee with a row for day 0 and none for day 1,
\* reported with the stored status on day 0 and Present on day 1.
C10_Witness ==
    \E i \in DOMAIN employees :
        LET r0 == GetAttendanceForDayResult(employees, attendance, 2, 0)
            r1 == GetAttendanceForDayResult(employees, attendance, 2, 1)
        IN /\ employees[i].current_status = "Active"
           /\ RowsWithKey(attendance, <<i, 0>>) # {}
           /\ RowsWithKey(attendance, <<i, 1>>) = {}
           /\ \E k \in DOMAIN r0.result :
                 r0.result[k].employee_id = i /\ r0.result[k].status = "PaidLeave"
           /\ \E k \in DOMAIN r1.result :
                 r1.result[k].employee_id = i /\ r1.result[k].status = "Present"
           /\ r1.attendance = attendance

\* C11: get_attendance_for_day(today, attendance_date) answers exactly one row
\* for each employee who is Active after refresh_employee_statuses(today) and
\* no row for any other employee; a row carries the stored status of
\* (employee, attendance_date) when there is one and Present otherwise.
C11_RowsForActiveEmployees ==
    \A today \in Dates, d \in AttDates :
        LET r == GetAttendanceForDayResult(employees, attendance, today, d)
            after == RefreshEmployeeStatuses(today, employees)
        IN /\ \A k \in DOMAIN r.result : r.result[k].employee_id \in DOMAIN employees
           /\ \A i \in DOMAIN employees :
                 LET ks == { k \in DOMAIN r.result : r.result[k].employee_id = i }
                     stored == RowsWithKey(attendance, <<i, d>>)
                 IN IF after[i].current_status = "Active"
                    THEN /\ Cardinality(ks) = 1
                         /\ \A k \in ks :
                               /\ r.result[k].attendance_date = d
                               /\ IF stored = {}
                                  THEN r.result[k].status = "Present"
                                  ELSE \A s \in stored : r.result[k].status = s.status
                    ELSE ks = {}

\* C11 witness: a stored Inactive employee with a PaidLeave row for day 0 whom
\* the refresh of day 2 activates and who is then reported with PaidLeave, and
\* an employee still Inactive on day 0 who is not reported.
C11_Witness ==
    \E i \in DOMAIN employees, j \in DOMAIN employees :
        LET late == GetAttendanceForDayResult(employees, attendance, 2, 0)
            early == GetAttendanceForDayResult(employees, attendance, 0, 0)
        IN /\ employees[i].current_status = "Inactive"
           /\ late.employees[i].current_status = "Active"
           /\ \E s \in RowsWithKey(attendance, <<i, 0>>) : s.status = "PaidLeave"
           /\ \E k \in DOMAIN late.result :
                 late.result[k].employee_id = i /\ late.result[k].status = "PaidLeave"
           /\ early.employees[j].current_status = "Inactive"
           /\ \A k \in DOMAIN early.result : early.result[k].employee_id # j

\* The keys named by a batch.
BatchKeys(items) == { AttKey(items[k]) : k \in DOMAIN items }

\* The last item of a batch with a given key.
LastWithKey(items, key) == items[Max({ k \in DOMAIN items : AttKey(items[k]) = key })]

\* C12: a non-empty save_attendance batch of items with valid statuses and
\* existing employees (two items may name the same key) succeeds, answers the
\* number of its items, leaves every key of the batch with exactly one row
\* whose status is that of the last item with the key, and leaves every other
\* row of the attendance table as it was.
C12_BulkSaveIsUpsert ==
    \A items \in AttendanceBatches :
        LET r == SaveAttendanceResult(employees, attendance, items) IN
        (/\ Len(items) > 0
         /\ \A k \in DOMAIN items : /\ items[k].status \in AttendanceStatuses
                                    /\ items[k].employee_id \in DOMAIN employees)
        => /\ r.status = 200
           /\ r.updated = Len(items)
           /\ \A key \in BatchKeys(items) :
                 /\ RowsWithKey(r.attendance, key)
                       = { [employee_id |-> key[1], attendance_date |-> key[2],
                            status |-> LastWithKey(items, key).status] }
                 /\ \A row \in RowsWithKey(r.attendance, key) :
                       CopiesIn(row, r.attendance) = 1
           /\ \A row \in BagToSet(attendance) \cup BagToSet(r.attendance) :
                 AttKey(row) \notin BatchKeys(items)
                     => CopiesIn(row, r.attendance) = CopiesIn(row, attendance)

\* C13: when list_employees or get_attendance_for_day fails after it has
\* called refresh_employee_statuses, the employee table is as it was before
\* the request: nothing of the refresh is stored.
C13_RefreshAtomicWithCaller ==
    \A today \in Dates :
        /\ LET r == ListEmployeesFailedResult(employees, today)
           IN r.status # 200 => r.employees = employees
        /\ \A d \in AttDates :
              LET r == GetAttendanceForDayFailedResult(employees, attendance, today, d)
              IN r.status # 200 => r.employees = employees

\* No employee has the code.
NoSuchEmployee(emps, code) == \A i \in DOMAIN emps : emps[i].emp_code # code

\* C14: update_employee_status, update_employee_salary and
\* apply_status_changes, given a code that no employee has, answer an error
\* and leave the employee table as it was.
C14_NotFoundOnUpdates ==
    /\ \A c \in EmpCodeInputs, u \in StatusInputs \cup {NoStatus}, d \in Dates \cup {NoDate} :
          LET r == UpdateEmployeeStatusResult(employees, c, u, d) IN
          NoSuchEmployee(employees, c) => r.status = 404 /\ r.employees = employees
    /\ \A c \in EmpCodeInputs, p \in SalaryPayloads :
          LET r == UpdateEmployeeSalaryResult(employees, c, p) IN
          NoSuchEmployee(employees, c) => r.status = 404 /\ r.employees = employees
    /\ \A today \in Dates, changes \in LifecycleBatches :
          LET r == ApplyStatusChangesResult(employees, today, changes) IN
          (\E k \in DOMAIN changes : NoSuchEmployee(employees, changes[k].emp_code))
              => r.status = 404 /\ r.employees = employees

\* Every current_status is one of the four statuses and every upcoming_status
\* is absent or one of them.
InStatusDomain(emps) ==
    \A i \in DOMAIN emps : /\ emps[i].current_status \in Statuses
                           /\ emps[i].upcoming_status \in Statuses \cup {NoStatus}

\* C15: every employee's current_status is Active, Inactive, Vacation or
\* Offboarded and its upcoming_status is absent or one of these, in the store
\* and in the store that any create_employee, update_employee_status,
\* apply_status_changes or refresh makes of it.
C15_StatusDomain ==
    /\ InStatusDomain(employees)
    /\ \A today \in Dates :
          /\ InStatusDomain(RefreshEmployeeStatuses(today, employees))
          /\ \A j \in Dates :
                InStatusDomain(CreateEmployeeResult(employees, j, Salary1000, today).employees)
          /\ \A c \in EmpCodeInputs, s \in StatusStrings, d \in Dates :
                InStatusDomain(ApplyStatusChangesResult(employees, today,
                    << [emp_code |-> c, new_status |-> s, effective_date |-> d] >>).employees)
    /\ \A c \in EmpCodeInputs, s \in StatusStrings \cup {NoStatus}, d \in Dates \cup {NoDate} :
          InStatusDomain(UpdateEmployeeStatusResult(employees, c, s, d).employees)

EmpCodes(emps) == [ i \in DOMAIN emps |-> emps[i].emp_code ]

\* C16: no two employees have the same emp_code, the code of the next
\* employee created is the code of no employee, also when a reset_database
\* comes before the creation, and no update operation, refresh or attendance
\* operation changes the emp_code of an employee.
C16_CodesNeverReused ==
    /\ \A i \in DOMAIN employees, k \in DOMAIN employees :
          employees[i].emp_code = employees[k].emp_code => i = k
    /\ \A i \in DOMAIN employees, j \in Dates, today \in Dates :
          LET created == CreateEmployeeResult(employees, j, Salary1000, today).employees
              wiped == ResetDatabaseResult(employees, attendance).employees
              recreated == CreateEmployeeResult(wiped, j, Salary1000, today).employees
          IN /\ created[Len(created)].emp_code # employees[i].emp_code
             /\ recreated[Len(recreated)].emp_code # employees[i].emp_code
    /\ \A today \in Dates :
          /\ EmpCodes(RefreshEmployeeStatuses(today, employees)) = EmpCodes(employees)
          /\ \A c \in EmpCodeInputs, s \in StatusInputs, d \in Dates :
                EmpCodes(ApplyStatusChangesResult(employees, today,
                    << [emp_code |-> c, new_status |-> s, effective_date |-> d] >>).employees)
                    = EmpCodes(employees)
    /\ \A c \in EmpCodeInputs, u \in StatusInputs \cup {NoStatus}, d \in Dates \cup {NoDate} :
          EmpCodes(UpdateEmployeeStatusResult(employees, c, u, d).employees)
              = EmpCodes(employees)
    /\ \A c \in EmpCodeInputs, p \in SalaryPayloads :
          EmpCodes(UpdateEmployeeSalaryResult(employees, c, p).employees)
              = EmpCodes(employees)

\* One step, for C17: in the state it starts from, list_employees,
\* create_employee, apply_status_changes, get_attendance_for_day and
\* save_attendance answer 200 to a today earlier than the stored manual_today;
\* a step that changes manual_today changes no employee and no attendance row,
\* and a step that changes an employee or an attendance row leaves the
\* system_today table as it was.
C17_ClockStep ==
    /\ \A today \in Dates :
          (ManualToday(system_today) # NoDate /\ today < ManualToday(system_today)) =>
             /\ ListEmployeesResult(employees, today).status = 200
             /\ \A j \in Dates :
                   CreateEmployeeResult(employees, j, Salary1000, today).status = 200
             /\ \A changes \in ClockBatches :
                   ApplyStatusChangesResult(employees, today, changes).status = 200
             /\ GetAttendanceForDayResult(employees, attendance, today, 0).status = 200
    /\ \A items \in ClockAttendanceBatches :
          SaveAttendanceResult(employees, attendance, items).status
              = IF Len(employees) = 0 THEN 500 ELSE 200
    /\ system_today' # system_today
          => employees' = employees /\ attendance' = attendance
    /\ (employees' # employees \/ attendance' # attendance)
          => system_today' = system_today

\* C17: no employee or attendance operation reads or writes the stored
\* manual_today, so each accepts a today earlier than it, and get_system_today
\* and set_system_today change no employee and no attendance row.
C17_ClockIsolated == [][C17_ClockStep]_vars

\* C17 witness: manual_today is day 2, and a list_employees with today = 1
\* is answered and activates an employee whose joining date is day 1, beside
\* a stored attendance row.
C17_Witness ==
    /\ ManualToday(system_today) = 2
    /\ attendance # EmptyBag
    /\ \E i \in DOMAIN employees :
          /\ employees[i].current_status = "Inactive"
          /\ employees[i].joining_date = 1
          /\ ListEmployeesResult(employees, 1).status = 200
          /\ ListEmployeesResult(employees, 1).employees[i].current_status = "Active"

\* C18: every employee's total_salary_monthly is the sum of its
\* basic_pay_monthly, transport_monthly, accommodation_monthly and
\* other_monthly.
C18_DerivedTotal ==
    \A i \in DOMAIN employees :
        employees[i].total_salary_monthly
            = employees[i].basic_pay_monthly + employees[i].transport_monthly
              + employees[i].accommodation_monthly + employees[i].other_monthly

\* C19: after refresh_employee_statuses(today) no employee is Inactive with
\* joining_date <= today, and an employee to whom pass 1 of that call gave a
\* current_status other than Inactive has that status.
C19_PassTwoSeesPassOne ==
    \A today \in Dates, i \in DOMAIN employees :
        LET e == employees[i]
            after == RefreshEmployeeStatuses(today, employees)[i]
        IN /\ ~(after.current_status = "Inactive" /\ after.joining_date <= today)
           /\ (ScheduledFor(e, today) /\ e.upcoming_status # "Inactive")
                 => after.current_status = e.upcoming_status

\* C20 (as claimed): when apply_status_changes(today, changes) returns, an
\* employee whose last change in the batch has effective_date <= today has
\* current_status = new_status and no pending transition, and an employee
\* whose last change has effective_date > today has upcoming_status =
\* new_status and status_change_date = effective_date.
C20_ImmediateApplication ==
    \A today \in Dates, changes \in LifecycleBatches :
        LET r == ApplyStatusChangesResult(employees, today, changes) IN
        \A i \in DOMAIN employees :
            LET ks == ChangesOf(employees, changes, i) IN
            ks # {} =>
               LET c == changes[Max(ks)]
                   e == r.employees[i]
               IN IF c.effective_date <= today
                  THEN StatusFields(e) = <<c.new_status, NoStatus, NoDate>>
                  ELSE /\ e.upcoming_status = c.new_status
                       /\ e.status_change_date = c.effective_date

\* C20 (amended): as claimed, except that an employee whose last change has
\* effective_date <= today and new_status = Inactive, and whose joining_date
\* is not after today, has current_status = Active when the call returns.
C20_ImmediateUnlessReactivated ==
    \A today \in Dates, changes \in LifecycleBatches :
        LET r == ApplyStatusChangesResult(employees, today, changes) IN
        \A i \in DOMAIN employees :
            LET ks == ChangesOf(employees, changes, i) IN
            ks # {} =>
               LET c == changes[Max(ks)]
                   e == r.employees[i]
                   reactivated == c.new_status = "Inactive" /\ e.joining_date <= today
               IN IF c.effective_date <= today
                  THEN StatusFields(e) =
                          <<IF reactivated THEN "Active" ELSE c.new_status, NoStatus, NoDate>>
                  ELSE /\ e.upcoming_status = c.new_status
                       /\ e.status_change_date = c.effective_date

\* C20 witness: on day 1, an employee who has joined is Active again after an
\* immediate Inactive and has a Vacation pending after one dated day 2, and
\* an employee who joins on day 2 is Inactive after an immediate Inactive.
C20_Witness ==
    \E i \in DOMAIN employees, j \in DOMAIN employees :
        LET Change(k, s, d) == << [emp_code |-> employees[k].emp_code, new_status |-> s,
                                   effective_date |-> d] >>
            After(k, s, d) == ApplyStatusChangesResult(employees, 1, Change(k, s, d)).employees[k]
        IN /\ employees[i].joining_date <= 1
           /\ employees[i].current_status = "Vacation"
           /\ StatusFields(After(i, "Inactive", 0)) = <<"Active", NoStatus, NoDate>>
           /\ StatusFields(After(i, "Vacation", 2)) = <<"Vacation", "Vacation", 2>>
           /\ employees[j].joining_date = 2
           /\ employees[j].current_status = "Vacation"
           /\ StatusFields(After(j, "Inactive", 1)) = <<"Inactive", NoStatus, NoDate>>

\* C21: a pending transition (U, D) that a refresh with today > D finds is
\* left pending by it and by every refresh with a today that is not earlier:
\* upcoming_status and status_change_date stay U and D, and current_status
\* changes only from Inactive to Active when the joining date is reached.
\* create_employee and update_employee_salary leave it pending too.
C21_SkippedStaysPending ==
    \A i \in DOMAIN employees :
        LET e == employees[i]
            Pending(x) == <<x.upcoming_status, x.status_change_date>>
            OnlyActivated(x, t) ==
                \/ x.current_status = e.current_status
                \/ /\ e.current_status = "Inactive"
                   /\ e.joining_date <= t
                   /\ x.current_status = "Active"
        IN HasPending(e) =>
              /\ \A t1 \in Dates, t2 \in Dates :
                    (e.status_change_date < t1 /\ t1 <= t2) =>
                       LET first == RefreshEmployeeStatuses(t1, employees)
                           second == RefreshEmployeeStatuses(t2, first)
                       IN /\ Pending(first[i]) = Pending(e)
                          /\ Pending(second[i]) = Pending(e)
                          /\ OnlyActivated(first[i], t1)
                          /\ OnlyActivated(second[i], t2)
              /\ \A c \in EmpCodeInputs, p \in SalaryPayloads :
                    StatusFields(UpdateEmployeeSalaryResult(employees, c, p).employees[i])
                        = StatusFields(e)
              /\ \A j \in Dates, today \in Dates :
                    StatusFields(CreateEmployeeResult(employees, j, Salary1000,
                                                      today).employees[i])
                        = StatusFields(e)

\* C21 witness: an Active employee with a Vacation pending for day 0, which a
\* refresh of day 0 applies and the refreshes of day 1 and then day 2 do not.
C21_Witness ==
    \E i \in DOMAIN employees :
        LET first == RefreshEmployeeStatuses(1, employees)
            second == RefreshEmployeeStatuses(2, first)
        IN /\ StatusFields(employees[i]) = <<"Active", "Vacation", 0>>
           /\ RefreshEmployeeStatuses(0, employees)[i].current_status = "Vacation"
           /\ StatusFields(first[i]) = <<"Active", "Vacation", 0>>
           /\ StatusFields(second[i]) = <<"Active", "Vacation", 0>>

\* One step, for C22: a stored manual_today is not followed by an earlier one,
\* and the system_today table never holds a second row.
C22_ParallelClockStep ==
    /\ ManualToday(system_today) # NoDate
          => ManualToday(system_today') >= ManualToday(system_today)
    /\ Len(system_today') <= 1

\* C22: however set_system_today requests that run in parallel interleave,
\* the committed manual_today never decreases and the row with id = 1 is
\* created at most once.
C22_ParallelClockMonotonic == [][C22_ParallelClockStep]_vars

\* C23: create_employee(today) stores the new employee Active when
\* joining_date <= today and Inactive when joining_date > today, with no
\* pending transition, and a refresh with the same today right after the
\* creation leaves the new employee as created.
C23_CreationAgreesWithRefresh ==
    \A j \in Dates, today \in Dates, p \in SalaryPayloads :
        LET r == CreateEmployeeResult(employees, j, p, today)
            id == Len(r.employees)
            created == r.employees[id]
        IN /\ r.status = 200
           /\ id = Len(employees) + 1
           /\ created.joining_date = j
           /\ StatusFields(created)
                 = <<IF j <= today THEN "Active" ELSE "Inactive", NoStatus, NoDate>>
           /\ RefreshEmployeeStatuses(today, r.employees)[id] = created

\* C23 witness: beside an employee with a transition due on day 1, an
\* employee created on day 1 is Inactive with joining date 2 and Active with
\* joining date 1 or 0, and the refresh of day 1 leaves each as created.
C23_Witness ==
    /\ \E i \in DOMAIN employees : ScheduledFor(employees[i], 1)
    /\ \A j \in Dates :
          LET r == CreateEmployeeResult(employees, j, Salary1000, 1)
              id == Len(r.employees)
          IN /\ r.employees[id].current_status = IF j = 2 THEN "Inactive" ELSE "Active"
             /\ RefreshEmployeeStatuses(1, r.employees)[id] = r.employees[id]
             /\ RefreshEmployeeStatuses(1, r.employees) # r.employees

\* An employee with its three status fields blanked: the fields a refresh
\* may not change.
OtherFields(e) ==
    [e EXCEPT !.current_status = NoStatus, !.upcoming_status = NoStatus,
              !.status_change_date = NoDate]

\* One step, for C24: for every today, refresh_employee_statuses(today) on
\* the store keeps the employees that there are, changes none of their fields
\* but current_status, upcoming_status and status_change_date, and leaves as
\* it is every employee that has no pending transition dated today and is
\* not Inactive with joining_date <= today; and a step that is this refresh
\* changes no attendance row and not the system_today table.
C24_RefreshStep ==
    \A today \in Dates :
        LET after == RefreshEmployeeStatuses(today, employees) IN
        /\ DOMAIN after = DOMAIN employees
        /\ \A i \in DOMAIN employees :
              LET e == employees[i] IN
              /\ OtherFields(after[i]) = OtherFields(e)
              /\ (/\ ~(e.status_change_date = today /\ e.upcoming_status # NoStatus)
                  /\ ~(e.current_status = "Inactive" /\ e.joining_date <= today))
                 => after[i] = e
        /\ (employees' = after /\ employees' # employees)
              => attendance' = attendance /\ system_today' = system_today

\* C24: refresh_employee_statuses changes only the three status fields of
\* the employees that one of its passes matches, and nothing else.
C24_RefreshFrame == [][C24_RefreshStep]_vars

\* C24 witness: beside an attendance row and a stored manual_today, the
\* refresh of day 1 applies the Vacation of one employee and leaves an
\* Inactive employee who joins on day 2 as it is.
C24_Witness ==
    /\ attendance # EmptyBag
    /\ ManualToday(system_today) # NoDate
    /\ \E i \in DOMAIN employees, k \in DOMAIN employees :
          LET after == RefreshEmployeeStatuses(1, employees) IN
          /\ StatusFields(employees[i]) = <<"Active", "Vacation", 1>>
          /\ StatusFields(after[i]) = <<"Vacation", NoStatus, NoDate>>
          /\ employees[k].current_status = "Inactive"
          /\ employees[k].joining_date = 2
          /\ after[k] = employees[k]

====
